---- MODULE Spec2Model ----
(***************************************************************************)
(* Model of the workflow engine of ai_gaming_agent/tools/workflow.py:       *)
(* run_workflow, driven over one call from its entry to its return (or to   *)
(* the exception that leaves it).  The handlers are the environment: what a *)
(* handler returns or raises is chosen when it is invoked.                  *)
(***************************************************************************)
EXTENDS Integers, Sequences, FiniteSets, TLC

VARIABLES steps, pc, i, results, failed_step, workflow_success, trace, report, exc

\* The call of run_workflow.
vars == <<steps, pc, i, results, failed_step, workflow_success, trace, report, exc>>

VARIABLES dparams, dpc, steps_completed, dresult, dtrace, dexc

\* The call of demo_terminal_workflow.
dvars == <<dparams, dpc, steps_completed, dresult, dtrace, dexc>>

VARIABLES rsteps, rpc, ri, rresults, rfailed_step, rworkflow_success, rreport, routs

\* Two calls of run_workflow under way at the same time, each with its own
\* locals; routs records the handler outcomes each call has received.
rvars == <<rsteps, rpc, ri, rresults, rfailed_step, rworkflow_success, rreport, routs>>

VARIABLES hpassword, hstarted, hrequest, hresponse, htransport

\* The HTTP application: the configured password, whether the lifespan has
\* started, the request last handled, its response, and whether the request
\* was handed to the MCP/SSE transport.
hvars == <<hpassword, hstarted, hrequest, hresponse, htransport>>

VARIABLES sname, sresult, sresponse

\* The MCP server's call_tool: the tool named by the last request, what its
\* handler returned, and the content answered.
svars == <<sname, sresult, sresponse>>

allvars == <<vars, dvars, rvars, hvars, svars>>

\* What an action of one part leaves alone: the variables of the other parts.
outside_workflow == <<dvars, rvars, hvars, svars>>
outside_demo == <<vars, rvars, hvars, svars>>
outside_runs == <<vars, dvars, hvars, svars>>
outside_http == <<vars, dvars, rvars, svars>>
outside_server == <<vars, dvars, rvars, hvars>>

(***************************************************************************)
(* Bounds of the model.                                                     *)
(***************************************************************************)
\* Longest step list submitted.
MaxSteps == 2

(***************************************************************************)
(* Values.                                                                  *)
(***************************************************************************)
\* Python's None where a string (tool name, error message) is expected.
None == "None"

\* Python's None where a step index is expected (failed_step).
NoIndex == -1

\* Value of the result field of a step_result before a handler has returned.
NoResult == [kind |-> "none", has_success |-> FALSE, success |-> FALSE, error |-> None]

\* The names _get_tool_handler resolves.
tool_modules ==
    {"screenshot", "get_screen_size",
     "click", "double_click", "move_to", "drag_to", "scroll", "get_mouse_position",
     "type_text", "press_key", "hotkey",
     "read_file", "write_file", "list_files", "upload_file", "download_file",
     "execute_command", "get_system_info", "list_windows", "focus_window"}

\* What importing a registered tool's module does: it succeeds, it fails with
\* ImportError or AttributeError (caught: the tool is not found), or it raises
\* something else (a GUI library with no display), which leaves the function.
ImportOutcomes == {"ok", "ImportError", "raise"}

\* Mutant of get_tool_handler: any name is resolved to a function of that name.
get_tool_handler_AnyName(tool_name, imp) ==
    IF imp = "ImportError" THEN None ELSE tool_name

\* _get_tool_handler(tool_name) when it returns: the handler (named by its
\* tool), or None.
get_tool_handler(tool_name, imp) ==
    IF tool_name \notin tool_modules THEN None
    ELSE IF imp = "ImportError" THEN None
    ELSE tool_name

\* _get_tool_handler(tool_name) raises instead of returning.
ResolutionRaises(tool_name, imp) ==
    tool_name \in tool_modules /\ imp = "raise"

(***************************************************************************)
(* Inputs.  A step is a mapping with the fields run_workflow reads, or a    *)
(* value that is not a mapping (a bare string).                             *)
(***************************************************************************)
\* Values of step["tool"]: absent, a registered name, a name not registered.
ToolInputs == {None, "click", "run_workflow"}

\* Values of step["wait_ms"].
WaitInputs == {0, 100}

DictSteps ==
    [is_dict : {TRUE}, tool : ToolInputs, args_is_dict : BOOLEAN,
     wait_ms : WaitInputs, continue_on_error : BOOLEAN]

\* A step that is not a dict, e.g. "not a dict".
NotADict ==
    [is_dict |-> FALSE, tool |-> None, args_is_dict |-> FALSE,
     wait_ms |-> 0, continue_on_error |-> FALSE]

StepInputs == DictSteps \cup {NotADict}

RECURSIVE StepLists(_)
StepLists(n) ==
    IF n = 0 THEN {<<>>}
    ELSE LET shorter == StepLists(n - 1)
         IN  shorter \cup {Append(s, x) : s \in {t \in shorter : Len(t) = n - 1}, x \in StepInputs}

\* The argument of run_workflow: a list of steps, or a value that is not a list
\* (None, a string, a dict, an int; size is its len(), or its value for an int).
ListInputs == {[type |-> "list", size |-> Len(s), items |-> s] : s \in StepLists(MaxSteps)}

NonListInputs ==
    {[type |-> "NoneType", size |-> 0, items |-> <<>>],
     [type |-> "str", size |-> 0, items |-> <<>>],
     [type |-> "str", size |-> 10, items |-> <<>>],
     [type |-> "dict", size |-> 0, items |-> <<>>],
     [type |-> "dict", size |-> 1, items |-> <<>>],
     [type |-> "int", size |-> 0, items |-> <<>>],
     [type |-> "int", size |-> 5, items |-> <<>>]}

Inputs == ListInputs \cup NonListInputs

\* What a handler does when invoked: returns a dict with success True, a dict
\* with success False (with or without an error), a dict with no success key,
\* a value that is not a dict, or raises.
HandlerOutcomes ==
    {[kind |-> "dict", has_success |-> TRUE, success |-> TRUE, error |-> None],
     [kind |-> "dict", has_success |-> TRUE, success |-> FALSE, error |-> "mock_error"],
     [kind |-> "dict", has_success |-> TRUE, success |-> FALSE, error |-> None],
     [kind |-> "dict", has_success |-> FALSE, success |-> FALSE, error |-> None],
     [kind |-> "value", has_success |-> FALSE, success |-> FALSE, error |-> None],
     [kind |-> "raise", has_success |-> FALSE, success |-> FALSE, error |-> "Test exception"]}

(***************************************************************************)
(* Pure parts of run_workflow.                                              *)
(***************************************************************************)
\* Mutant of Truthy: the emptiness check is lost.
Truthy_Always(x) == TRUE

\* bool(steps): None, 0 and empty containers are falsy.
Truthy(x) == x.type # "NoneType" /\ x.size # 0

\* isinstance(steps, list)
IsList(x) == x.type = "list"

\* The report of the two input checks.
EarlyReport(msg) ==
    [success |-> FALSE, error |-> msg, total_steps |-> 0, completed_steps |-> 0,
     failed_step |-> NoIndex, results |-> <<>>]

\* Mutant of NewStepResult: the index is recorded 1-based, like the description.
NewStepResult_OneBased(idx) ==
    [step_index |-> idx + 1, tool |-> None, success |-> FALSE, result |-> NoResult, error |-> None]

\* The step_result a loop iteration starts from.
NewStepResult(idx) ==
    [step_index |-> idx, tool |-> None, success |-> FALSE, result |-> NoResult, error |-> None]

\* result.get("success", default) of a dict result.
GetSuccess(result, default) ==
    IF result.has_success THEN result.success ELSE default

\* Mutant of StepSuccess: a result that is not a dict counts as no success.
StepSuccess_NonDictFalse(result) ==
    IF result.kind = "dict" THEN GetSuccess(result, FALSE) ELSE FALSE

\* step_result["success"] after the handler returned.
StepSuccess(result) ==
    IF result.kind = "dict" THEN GetSuccess(result, FALSE) ELSE TRUE

\* "Check if tool reported failure".
ToolReportedFailure(result) ==
    result.kind = "dict" /\ ~GetSuccess(result, TRUE)

\* result.get("error", "Tool returned failure")
ReportedError(result) ==
    IF result.error # None THEN result.error ELSE "Tool returned failure"

\* Mutant of DescriptionRaises: the shape is checked before any field access.
DescriptionRaises_Never(step) == FALSE

\* step.get("description", ...) in the step_result initialiser, outside the
\* try: a step that is not a dict has no get and AttributeError is raised.
DescriptionRaises(step) == ~step.is_dict

\* Mutant of ExceptionResult: the exception's message is not recorded.
ExceptionResult_NoMessage(base, msg) == base

\* The step_result of the except clause: step_result["error"] = str(e).
ExceptionResult(base, msg) == [base EXCEPT !.error = msg]

\* Mutant of Halts: the negation is lost.
Halts_Inverted(step) == step.continue_on_error

\* Mutant of Halts: continue_on_error is ignored.
Halts_Always(step) == TRUE

\* not step.get("continue_on_error", False)
Halts(step) == ~step.continue_on_error

\* Mutant of ShouldWait: the delay is applied between steps only.
ShouldWait_SkipLast(step, step_result) ==
    step.wait_ms > 0 /\ step_result.success /\ step_result.step_index + 1 < steps.size

\* Mutant of ShouldWait: the delay is applied whatever the step's outcome.
ShouldWait_IgnoreSuccess(step, step_result) ==
    step.wait_ms > 0

\* The wait_ms delay is applied after a successful step.
ShouldWait(step, step_result) ==
    step.wait_ms > 0 /\ step_result.success

\* Mutant of CountSuccess: every recorded result is counted.
CountSuccess_All(rs) == Len(rs)

\* sum(1 for r in results if r.get("success", False))
RECURSIVE CountSuccess(_)
CountSuccess(rs) ==
    IF rs = <<>> THEN 0
    ELSE (IF rs[1].success THEN 1 ELSE 0) + CountSuccess(Tail(rs))

\* The report returned after the loop.
FinalReport(sts, rs, failed, ok) ==
    [success |-> ok,
     total_steps |-> sts.size,
     completed_steps |-> CountSuccess(rs),
     failed_step |-> failed,
     results |-> rs,
     error |-> IF failed # NoIndex THEN rs[failed + 1].error ELSE None]

\* Mutant of Break: the index of the first step is recorded.
Break_FirstIndex(idx) == [failed_step |-> 0, workflow_success |-> FALSE]

\* Mutant of Break: workflow_success is left as it was.
Break_KeepsSuccess(idx) == [failed_step |-> idx, workflow_success |-> TRUE]

\* The locals a halting step sets before its break.
Break(idx) == [failed_step |-> idx, workflow_success |-> FALSE]

\* The handler raised, or returned a mapping reporting a failure.
HandlerFailure(out) == out.kind = "raise" \/ ToolReportedFailure(out)

\* The step_result of a step whose handler was invoked with outcome out.
HandlerStepResult(step, idx, out) ==
    LET base == [NewStepResult(idx) EXCEPT !.tool = step.tool]
    IN  IF out.kind = "raise"
        THEN ExceptionResult(base, out.error)
        ELSE [base EXCEPT
                !.result = out,
                !.success = StepSuccess(out),
                !.error = IF ToolReportedFailure(out) /\ Halts(step)
                          THEN ReportedError(out) ELSE None]

\* Mutant of StepsAfterIteration: the fields are taken out of the step with
\* pop instead of get, so the delay of the step is gone from the caller's list.
StepsAfterIteration_Pop(sts, idx) == [sts EXCEPT !.items[idx + 1].wait_ms = 0]

\* The caller's list after iteration idx: the body reads the step with
\* step.get(...) only and hands args to the handler unpacked (**args), so
\* neither the list, the step nor its args is written.
StepsAfterIteration(sts, idx) == sts

\* Events of a run, in the order they happen.
Event(ev, idx) == [ev |-> ev, idx |-> idx, out |-> NoResult]
RetEvent(idx, out) == [ev |-> "ret", idx |-> idx, out |-> out]
ResolveEvent(idx, kind) ==
    [ev |-> "resolve", idx |-> idx, out |-> [NoResult EXCEPT !.kind = kind]]

\* The step the loop is at (Python index i).
CurStep == steps.items[i + 1]

\* Where the loop goes after iteration idx: the next step, or past the end.
AfterStep(idx) == IF idx + 1 < steps.size THEN "loop" ELSE "finish"

(***************************************************************************)
(* The call.                                                                *)
(***************************************************************************)
Init ==
    /\ steps \in Inputs
    /\ pc = "entry"
    /\ i = 0
    /\ results = <<>>
    /\ failed_step = NoIndex
    /\ workflow_success = TRUE
    /\ trace = <<>>
    /\ report = EarlyReport(None)
    /\ exc = None

\* Mutant of Enter: every step is validated before the first one is run.
Enter_ValidatesUpFront ==
    /\ pc = "entry"
    /\ IF ~Truthy(steps)
       THEN /\ report' = EarlyReport("No steps provided")
            /\ pc' = "returned"
       ELSE IF ~IsList(steps)
       THEN /\ report' = EarlyReport("Steps must be a list")
            /\ pc' = "returned"
       ELSE IF \E n \in DOMAIN steps.items :
                  ~(/\ steps.items[n].is_dict
                    /\ steps.items[n].tool \in tool_modules
                    /\ steps.items[n].args_is_dict)
       THEN /\ report' = EarlyReport("Invalid step")
            /\ pc' = "returned"
       ELSE /\ pc' = AfterStep(-1)
            /\ UNCHANGED report
    /\ UNCHANGED <<steps, i, results, failed_step, workflow_success, trace, exc>>
    /\ UNCHANGED outside_workflow

\* The two input checks, then the locals of the loop.
Enter ==
    /\ pc = "entry"
    /\ IF ~Truthy(steps)
       THEN /\ report' = EarlyReport("No steps provided")
            /\ pc' = "returned"
       ELSE IF ~IsList(steps)
       THEN /\ report' = EarlyReport("Steps must be a list")
            /\ pc' = "returned"
       ELSE /\ pc' = AfterStep(-1)
            /\ UNCHANGED report
    /\ UNCHANGED <<steps, i, results, failed_step, workflow_success, trace, exc>>
    /\ UNCHANGED outside_workflow

\* Mutant of RecordInvalid: a validation failure always breaks the loop.
RecordInvalid_AlwaysHalts(step_result, step) ==
    /\ results' = Append(results, step_result)
    /\ failed_step' = Break(i).failed_step
    /\ workflow_success' = Break(i).workflow_success
    /\ pc' = "finish"
    /\ UNCHANGED i

\* A failure found before the handler is called: recorded, then break or continue.
RecordInvalid(step_result, step) ==
    /\ results' = Append(results, step_result)
    /\ IF Halts(step)
       THEN /\ failed_step' = Break(i).failed_step
            /\ workflow_success' = Break(i).workflow_success
            /\ pc' = "finish"
            /\ UNCHANGED i
       ELSE /\ i' = i + 1
            /\ pc' = AfterStep(i)
            /\ UNCHANGED <<failed_step, workflow_success>>

\* Mutant of Complete: a failed step with continue_on_error is attempted again
\* instead of being recorded.
Complete_RetryFailed(step, step_result, failed, events) ==
    IF failed /\ ~Halts(step)
    THEN /\ pc' = "loop"
         /\ trace' = trace \o events
         /\ UNCHANGED <<i, results, failed_step, workflow_success>>
    ELSE /\ results' = Append(results, step_result)
         /\ IF failed
            THEN /\ failed_step' = Break(i).failed_step
                 /\ workflow_success' = Break(i).workflow_success
                 /\ pc' = "finish"
                 /\ trace' = trace \o events
                 /\ UNCHANGED i
            ELSE /\ pc' = AfterStep(i)
                 /\ i' = i + 1
                 /\ trace' = trace \o events
                 /\ UNCHANGED <<failed_step, workflow_success>>

\* A step that got past validation ends: its step_result is recorded, then
\* the loop breaks, sleeps or moves on.  `failed` says the handler reported a
\* failure or an exception was caught; `events` is what happened meanwhile.
Complete(step, step_result, failed, events) ==
    /\ results' = Append(results, step_result)
    /\ IF failed /\ Halts(step)
       THEN /\ failed_step' = Break(i).failed_step
            /\ workflow_success' = Break(i).workflow_success
            /\ pc' = "finish"
            /\ trace' = trace \o events
            /\ UNCHANGED i
       ELSE IF ShouldWait(step, step_result)
       THEN /\ pc' = "sleep"
            /\ trace' = trace \o events \o <<Event("sleep", i)>>
            /\ UNCHANGED <<i, failed_step, workflow_success>>
       ELSE /\ pc' = AfterStep(i)
            /\ i' = i + 1
            /\ trace' = trace \o events
            /\ UNCHANGED <<failed_step, workflow_success>>

\* One iteration, from the step_result initialiser to the handler call.
StepBegin ==
    /\ pc = "loop"
    /\ \E imp \in ImportOutcomes :
         LET step == CurStep
             handler == get_tool_handler(step.tool, imp)
         IN  IF DescriptionRaises(step)
             THEN /\ exc' = "AttributeError"
                  /\ pc' = "raised"
                  /\ UNCHANGED <<i, results, failed_step, workflow_success, trace>>
             ELSE IF ~step.is_dict
             THEN \* "Validate step structure": recorded, then always break
                  /\ results' = Append(results,
                        [NewStepResult(i) EXCEPT
                           !.error = "Step " \o ToString(i) \o " must be a dictionary"])
                  /\ failed_step' = Break(i).failed_step
                  /\ workflow_success' = Break(i).workflow_success
                  /\ pc' = "finish"
                  /\ UNCHANGED <<i, trace, exc>>
             ELSE IF step.tool = None
             THEN /\ RecordInvalid(
                       [NewStepResult(i) EXCEPT
                          !.error = "Step " \o ToString(i) \o " missing 'tool' field"], step)
                  /\ UNCHANGED <<trace, exc>>
             ELSE IF ResolutionRaises(step.tool, imp)
             THEN \* caught by the except clause of the loop body
                  /\ Complete(step,
                              ExceptionResult([NewStepResult(i) EXCEPT !.tool = step.tool],
                                              "import failed"),
                              TRUE, <<ResolveEvent(i, "raise")>>)
                  /\ UNCHANGED exc
             ELSE IF handler = None
             THEN /\ RecordInvalid(
                       [NewStepResult(i) EXCEPT
                          !.tool = step.tool,
                          !.error = "Unknown tool: " \o step.tool], step)
                  /\ trace' = Append(trace, ResolveEvent(i, "unresolved"))
                  /\ UNCHANGED exc
             ELSE IF ~step.args_is_dict
             THEN /\ RecordInvalid(
                       [NewStepResult(i) EXCEPT
                          !.tool = step.tool,
                          !.error = "Step " \o ToString(i) \o " 'args' must be a dictionary"], step)
                  /\ trace' = Append(trace, ResolveEvent(i, "handler"))
                  /\ UNCHANGED exc
             ELSE /\ trace' = trace \o <<ResolveEvent(i, "handler"), Event("call", i)>>
                  /\ pc' = "call"
                  /\ UNCHANGED <<i, results, failed_step, workflow_success, exc>>
    /\ steps' = StepsAfterIteration(steps, i)
    /\ UNCHANGED report
    /\ UNCHANGED outside_workflow

\* The handler returns or raises; the outcome is classified and recorded.
HandlerReturns ==
    /\ pc = "call"
    /\ \E out \in HandlerOutcomes :
         LET step == CurStep
         IN  Complete(step, HandlerStepResult(step, i, out), HandlerFailure(out),
                      <<RetEvent(i, out)>>)
    /\ steps' = StepsAfterIteration(steps, i)
    /\ UNCHANGED <<report, exc>>
    /\ UNCHANGED outside_workflow

\* time.sleep(wait_ms / 1000.0) returns.
SleepDone ==
    /\ pc = "sleep"
    /\ trace' = Append(trace, Event("wake", i))
    /\ i' = i + 1
    /\ pc' = AfterStep(i)
    /\ UNCHANGED <<steps, results, failed_step, workflow_success, report, exc>>
    /\ UNCHANGED outside_workflow

\* The loop is over (break or exhaustion): the report is built and returned.
ReturnReport ==
    /\ pc = "finish"
    /\ report' = FinalReport(steps, results, failed_step, workflow_success)
    /\ pc' = "returned"
    /\ UNCHANGED <<steps, i, results, failed_step, workflow_success, trace, exc>>
    /\ UNCHANGED outside_workflow

Next == Enter \/ StepBegin \/ HandlerReturns \/ SleepDone \/ ReturnReport

\* No call of demo_terminal_workflow is under way.
DemoIdle ==
    /\ dparams = [capture_screenshot |-> FALSE, close_terminal |-> FALSE]
    /\ dpc = "idle"
    /\ steps_completed = <<>>
    /\ dresult = [success |-> FALSE, terminal_command |-> None,
                  screenshot |-> NoResult, error |-> None]
    /\ dtrace = <<>>
    /\ dexc = None

\* No concurrent calls of run_workflow are under way.
RunsIdle ==
    /\ rsteps = <<>>
    /\ rpc = <<>>
    /\ ri = <<>>
    /\ rresults = <<>>
    /\ rfailed_step = <<>>
    /\ rworkflow_success = <<>>
    /\ rreport = <<>>
    /\ routs = <<>>

\* The HTTP application is not created.
HttpIdle ==
    /\ hpassword = <<>>
    /\ hstarted = FALSE
    /\ hrequest = [endpoint |-> None, has_header |-> FALSE, header |-> <<>>]
    /\ hresponse = 0
    /\ htransport = FALSE

\* The MCP server has answered no call.
ServerIdle ==
    /\ sname = None
    /\ sresult = [out |-> NoResult, has_image |-> FALSE]
    /\ sresponse = [type |-> None, text |-> None]

\* run_workflow is called once; nothing else is under way.
WorkflowInit == Init /\ DemoIdle /\ RunsIdle /\ HttpIdle /\ ServerIdle

Spec == WorkflowInit /\ [][Next]_allvars

\* The same call when it keeps running: run_workflow is sequential code on
\* one thread, so a statement that can be executed is executed, and every
\* handler call and every time.sleep is taken to return.
SpecLive == WorkflowInit /\ [][Next]_allvars /\ WF_allvars(Next)

(***************************************************************************)
(* demo_terminal_workflow: one call, from the detection of a terminal to    *)
(* the return of its report.  The terminal probe, the launch and the four   *)
(* tools it uses are the environment.                                       *)
(***************************************************************************)
\* What _detect_terminal_command returns: a terminal command, or None.
DetectOutcomes == {"gnome-terminal", None}

\* The arguments that select stages: capture_screenshot and close_terminal.
DemoParams == [capture_screenshot : BOOLEAN, close_terminal : BOOLEAN]

\* An event of the call: a probe, a launch, a sleep, the resolution of a tool
\* or the invocation of its handler, with the stage it belongs to.
DemoEvent(ev, stage, tool, out) == [ev |-> ev, stage |-> stage, tool |-> tool, out |-> out]

\* What the use of a tool comes to: its resolution raises, it is not found,
\* its handler raises, returns something without a get method, returns a
\* result whose get("success", False) is true, or one where it is false.
ToolOutcome(tool, imp, out) ==
    IF ResolutionRaises(tool, imp) THEN "resolve_raise"
    ELSE IF get_tool_handler(tool, imp) = None THEN "unavailable"
    ELSE IF out.kind = "raise" THEN "raise"
    ELSE IF out.kind # "dict" THEN "not_a_dict"
    ELSE IF GetSuccess(out, FALSE) THEN "ok"
    ELSE "failed"

\* The outcomes that raise inside the try of demo_terminal_workflow.
Raising == {"resolve_raise", "raise", "not_a_dict"}

\* str(e) of the exception of a raising outcome.
ExceptionMessage(outcome, out) ==
    IF outcome = "resolve_raise" THEN "import failed"
    ELSE IF outcome = "raise" THEN out.error
    ELSE "AttributeError"

\* The events of the use of a tool: its resolution, then the call if a
\* handler was found.
ToolEvents(stage, tool, imp, out) ==
    IF ResolutionRaises(tool, imp)
    THEN <<DemoEvent("resolve", stage, tool, [NoResult EXCEPT !.kind = "raise"])>>
    ELSE IF get_tool_handler(tool, imp) = None
    THEN <<DemoEvent("resolve", stage, tool, [NoResult EXCEPT !.kind = "unresolved"])>>
    ELSE <<DemoEvent("resolve", stage, tool, [NoResult EXCEPT !.kind = "handler"]),
           DemoEvent("call", stage, tool, out)>>

\* x.get('error', 'Unknown error') of a result.
ErrorOrUnknown(out) == IF out.error # None THEN out.error ELSE "Unknown error"

\* Mutant of CaptureRequested: the screenshot is always taken.
CaptureRequested_Always(params) == TRUE

\* if capture_screenshot:
CaptureRequested(params) == params.capture_screenshot

\* if close_terminal:
CloseRequested(params) == params.close_terminal

\* Mutant of StageFailed: the result of a required tool is not looked at.
StageFailed_Never(outcome) == FALSE

\* if not x_result.get("success", False): the required stage failed.
StageFailed(outcome) == outcome = "failed"

\* Mutant of OptionalListed: an optional stage is listed once it was attempted.
OptionalListed_Always(outcome) == TRUE

\* if x_result.get("success", False): the optional stage is listed.
OptionalListed(outcome) == outcome = "ok"

\* Mutant of CleanupWanted: the except clause never closes the terminal.
CleanupWanted_Never(completed, params) == FALSE

\* Mutant of CleanupWanted: the terminal is closed after any error once it
\* was opened, requested or not.
CleanupWanted_IgnoresFlag(completed, params) ==
    \E n \in DOMAIN completed : completed[n] = "open_terminal"

\* "Try to close terminal on error if we opened it"
CleanupWanted(completed, params) ==
    (\E n \in DOMAIN completed : completed[n] = "open_terminal") /\ params.close_terminal

\* Mutant of ErrorAfterCleanup: an exception of the cleanup replaces the
\* error of the report.
ErrorAfterCleanup_Masked(original, outcome, out) ==
    IF outcome \in {"resolve_raise", "raise"} THEN ExceptionMessage(outcome, out)
    ELSE original

\* result["error"] once the cleanup of the except clause is over: it was set
\* to str(e) before the cleanup, whose own exception is passed over and
\* whose result is not looked at.
ErrorAfterCleanup(original, outcome, out) == original

DemoInit ==
    /\ dparams \in DemoParams
    /\ dpc = "detect"
    /\ steps_completed = <<>>
    /\ dresult = [success |-> FALSE, terminal_command |-> None,
                  screenshot |-> NoResult, error |-> None]
    /\ dtrace = <<>>
    /\ dexc = None

\* Mutant of ReturnError: the report is returned without its error.
ReturnError_NoMessage(msg, events) ==
    /\ dtrace' = dtrace \o events
    /\ dpc' = "returned"
    /\ UNCHANGED <<steps_completed, dresult, dexc>>

\* The function returns its report with an error set.
ReturnError(msg, events) ==
    /\ dresult' = [dresult EXCEPT !.error = msg]
    /\ dtrace' = dtrace \o events
    /\ dpc' = "returned"
    /\ UNCHANGED <<steps_completed, dexc>>

\* An exception is raised inside the try: control goes to the except clause.
RaiseInTry(msg, events) ==
    /\ dexc' = msg
    /\ dtrace' = dtrace \o events
    /\ dpc' = "except"

\* Step 1: detect the terminal command.
DemoDetect ==
    /\ dpc = "detect"
    /\ \E terminal_cmd \in DetectOutcomes :
         LET ev == <<DemoEvent("detect", "detect", None,
                               [NoResult EXCEPT !.kind = IF terminal_cmd = None
                                                         THEN "none" ELSE "found"])>>
         IN  IF terminal_cmd = None
             THEN ReturnError("No supported terminal found for platform", ev)
             ELSE /\ dresult' = [dresult EXCEPT !.terminal_command = terminal_cmd]
                  /\ steps_completed' = Append(steps_completed, "detect_terminal")
                  /\ dtrace' = dtrace \o ev
                  /\ dpc' = "open"
                  /\ UNCHANGED dexc
    /\ UNCHANGED <<dparams, outside_demo>>

\* Step 2: subprocess.Popen starts the terminal, or raises.
DemoOpen ==
    /\ dpc = "open"
    /\ \E started \in BOOLEAN :
         IF started
         THEN /\ steps_completed' = Append(steps_completed, "open_terminal")
              /\ dtrace' = Append(dtrace, DemoEvent("launch", "open", None, NoResult))
              /\ dpc' = "wait"
              /\ UNCHANGED <<dresult, dexc>>
         ELSE ReturnError("Failed to open terminal",
                          <<DemoEvent("launch_failed", "open", None, NoResult)>>)
    /\ UNCHANGED <<dparams, outside_demo>>

\* Mutant of DemoWait: the stage is listed without the delay being slept.
DemoWait_NoSleep ==
    /\ dpc = "wait"
    /\ steps_completed' = Append(steps_completed, "wait_for_terminal")
    /\ dpc' = "type"
    /\ UNCHANGED <<dparams, dresult, dtrace, dexc, outside_demo>>

\* Step 3: time.sleep(terminal_wait_ms / 1000.0).
DemoWait ==
    /\ dpc = "wait"
    /\ dtrace' = Append(dtrace, DemoEvent("sleep", "wait", None, NoResult))
    /\ steps_completed' = Append(steps_completed, "wait_for_terminal")
    /\ dpc' = "type"
    /\ UNCHANGED <<dparams, dresult, dexc, outside_demo>>

\* A required tool stage: the tool is resolved and invoked; on success the
\* stage is listed and the delay that follows it is slept.
RequiredStage(stage, tool, name, load_error, fail_prefix, next) ==
    \E imp \in ImportOutcomes, out \in HandlerOutcomes :
        LET outcome == ToolOutcome(tool, imp, out)
            ev == ToolEvents(stage, tool, imp, out)
        IN  IF outcome \in Raising
            THEN /\ RaiseInTry(ExceptionMessage(outcome, out), ev)
                 /\ UNCHANGED <<steps_completed, dresult>>
            ELSE IF outcome = "unavailable"
            THEN ReturnError(load_error, ev)
            ELSE IF StageFailed(outcome)
            THEN ReturnError(fail_prefix \o ErrorOrUnknown(out), ev)
            ELSE /\ steps_completed' = Append(steps_completed, name)
                 /\ dtrace' = dtrace \o ev \o <<DemoEvent("sleep", stage, None, NoResult)>>
                 /\ dpc' = next
                 /\ UNCHANGED <<dresult, dexc>>

\* Step 4: type the text, then time.sleep(post_type_wait_ms / 1000.0).
DemoType ==
    /\ dpc = "type"
    /\ RequiredStage("type", "type_text", "type_text",
                     "Failed to load type_text tool", "Failed to type text: ", "enter")
    /\ UNCHANGED <<dparams, outside_demo>>

\* Mutant of DemoEnter: the stage is listed under the name of the typing stage.
DemoEnter_ListsTypeText ==
    /\ dpc = "enter"
    /\ RequiredStage("enter", "press_key", "type_text",
                     "Failed to load press_key tool", "Failed to press Enter: ", "capture")
    /\ UNCHANGED <<dparams, outside_demo>>

\* Step 5: press Enter, then time.sleep(post_enter_wait_ms / 1000.0).
DemoEnter ==
    /\ dpc = "enter"
    /\ RequiredStage("enter", "press_key", "press_enter",
                     "Failed to load press_key tool", "Failed to press Enter: ", "capture")
    /\ UNCHANGED <<dparams, outside_demo>>

\* Step 6: capture a screenshot if requested.
DemoCapture ==
    /\ dpc = "capture"
    /\ IF ~CaptureRequested(dparams)
       THEN /\ dpc' = "close"
            /\ UNCHANGED <<steps_completed, dresult, dtrace, dexc>>
       ELSE \E imp \in ImportOutcomes, out \in HandlerOutcomes :
              LET outcome == ToolOutcome("screenshot", imp, out)
                  ev == ToolEvents("capture", "screenshot", imp, out)
              IN  IF outcome \in Raising
                  THEN /\ RaiseInTry(ExceptionMessage(outcome, out), ev)
                       /\ dresult' = IF outcome = "not_a_dict"
                                     THEN [dresult EXCEPT !.screenshot = out]
                                     ELSE dresult
                       /\ UNCHANGED steps_completed
                  ELSE /\ dresult' = IF outcome = "unavailable" THEN dresult
                                     ELSE [dresult EXCEPT !.screenshot = out]
                       /\ steps_completed' =
                             IF OptionalListed(outcome)
                             THEN Append(steps_completed, "capture_screenshot")
                             ELSE steps_completed
                       /\ dtrace' = dtrace \o ev
                       /\ dpc' = "close"
                       /\ UNCHANGED dexc
    /\ UNCHANGED <<dparams, outside_demo>>

\* Step 7: close the terminal if requested, then return success.
DemoClose ==
    /\ dpc = "close"
    /\ IF ~CloseRequested(dparams)
       THEN /\ dresult' = [dresult EXCEPT !.success = TRUE]
            /\ dpc' = "returned"
            /\ UNCHANGED <<steps_completed, dtrace, dexc>>
       ELSE \E imp \in ImportOutcomes, out \in HandlerOutcomes :
              LET outcome == ToolOutcome("hotkey", imp, out)
                  ev == ToolEvents("close", "hotkey", imp, out)
              IN  IF outcome \in Raising
                  THEN /\ RaiseInTry(ExceptionMessage(outcome, out), ev)
                       /\ UNCHANGED <<steps_completed, dresult>>
                  ELSE /\ steps_completed' =
                             IF OptionalListed(outcome)
                             THEN Append(steps_completed, "close_terminal")
                             ELSE steps_completed
                       /\ dresult' = [dresult EXCEPT !.success = TRUE]
                       /\ dtrace' = dtrace \o ev
                       /\ dpc' = "returned"
                       /\ UNCHANGED dexc
    /\ UNCHANGED <<dparams, outside_demo>>

\* The except clause: the error is recorded, the terminal is closed if it
\* was opened and closing was requested (any exception of that is passed
\* over), and the report is returned.
DemoExcept ==
    /\ dpc = "except"
    /\ \E imp \in ImportOutcomes, out \in HandlerOutcomes :
         IF CleanupWanted(steps_completed, dparams)
         THEN /\ dtrace' = dtrace \o ToolEvents("cleanup", "hotkey", imp, out)
              /\ dresult' = [dresult EXCEPT
                               !.error = ErrorAfterCleanup(dexc, ToolOutcome("hotkey", imp, out), out)]
         ELSE /\ dtrace' = dtrace
              /\ dresult' = [dresult EXCEPT !.error = dexc]
    /\ dpc' = "returned"
    /\ UNCHANGED <<dparams, steps_completed, dexc, outside_demo>>

DemoNext ==
    \/ DemoDetect \/ DemoOpen \/ DemoWait \/ DemoType \/ DemoEnter
    \/ DemoCapture \/ DemoClose \/ DemoExcept

\* No call of run_workflow is under way.
WorkflowIdle ==
    /\ steps = [type |-> "list", size |-> 0, items |-> <<>>]
    /\ pc = "idle"
    /\ i = 0
    /\ results = <<>>
    /\ failed_step = NoIndex
    /\ workflow_success = TRUE
    /\ trace = <<>>
    /\ report = EarlyReport(None)
    /\ exc = None

\* demo_terminal_workflow is called; nothing else is under way.
DemoCallInit == DemoInit /\ WorkflowIdle /\ RunsIdle /\ HttpIdle /\ ServerIdle

SpecDemo == DemoCallInit /\ [][DemoNext]_allvars

(***************************************************************************)
(* Two calls of run_workflow at the same time (two threads).  Each call has *)
(* its own locals; the calls interleave at their handler invocations.  The  *)
(* submitted steps are well-formed, so every iteration reaches its handler. *)
(***************************************************************************)
Runs == {"A", "B"}

\* The tool the steps of a call name: one per call, so that a step_result
\* tells which call recorded it.
RunTool(r) == IF r = "A" THEN "click" ELSE "type_text"

RunSteps(r) ==
    [is_dict : {TRUE}, tool : {RunTool(r)}, args_is_dict : {TRUE},
     wait_ms : {0}, continue_on_error : BOOLEAN]

\* The lists a call is given: one or two steps.
RunInputs(r) ==
    {[type |-> "list", size |-> Len(l), items |-> l] :
        l \in {<<x>> : x \in RunSteps(r)} \cup (RunSteps(r) \X RunSteps(r))}

\* The step passes the checks of the loop body: it is a mapping, its tool
\* resolves, and its args is a mapping.
WellFormedStep(step) ==
    step.is_dict /\ get_tool_handler(step.tool, "ok") # None /\ step.args_is_dict

\* Mutant of Own: results is one module-level list that all calls append to.
Own_Shared(r) == "A"

\* The results list of call r: "results = []" binds a new list in each call.
Own(r) == r

RunsInit ==
    /\ \E a \in RunInputs("A"), b \in RunInputs("B") :
          rsteps = [r \in Runs |-> IF r = "A" THEN a ELSE b]
    /\ rpc = [r \in Runs |-> "entry"]
    /\ ri = [r \in Runs |-> 0]
    /\ rresults = [r \in Runs |-> <<>>]
    /\ rfailed_step = [r \in Runs |-> NoIndex]
    /\ rworkflow_success = [r \in Runs |-> TRUE]
    /\ rreport = [r \in Runs |-> EarlyReport(None)]
    /\ routs = [r \in Runs |-> <<>>]

\* Where the loop of a call goes after iteration idx.
RunAfterStep(sts, idx) == IF idx + 1 < sts.size THEN "loop" ELSE "finish"

\* Call r passes the two input checks and sets up its locals.
RunEnter(r) ==
    /\ rpc[r] = "entry"
    /\ IF ~Truthy(rsteps[r])
       THEN /\ rreport' = [rreport EXCEPT ![r] = EarlyReport("No steps provided")]
            /\ rpc' = [rpc EXCEPT ![r] = "returned"]
            /\ UNCHANGED rresults
       ELSE IF ~IsList(rsteps[r])
       THEN /\ rreport' = [rreport EXCEPT ![r] = EarlyReport("Steps must be a list")]
            /\ rpc' = [rpc EXCEPT ![r] = "returned"]
            /\ UNCHANGED rresults
       ELSE /\ rpc' = [rpc EXCEPT ![r] = RunAfterStep(rsteps[r], -1)]
            /\ rresults' = [rresults EXCEPT ![Own(r)] = <<>>]
            /\ UNCHANGED rreport
    /\ UNCHANGED <<rsteps, ri, rfailed_step, rworkflow_success, routs>>
    /\ UNCHANGED outside_runs

\* Call r starts an iteration: the step is validated, its tool resolved, and
\* the handler is invoked.
RunStepBegin(r) ==
    /\ rpc[r] = "loop"
    /\ WellFormedStep(rsteps[r].items[ri[r] + 1])
    /\ rpc' = [rpc EXCEPT ![r] = "call"]
    /\ UNCHANGED <<rsteps, ri, rresults, rfailed_step, rworkflow_success, rreport, routs>>
    /\ UNCHANGED outside_runs

\* The handler invoked by call r returns or raises; the outcome is recorded
\* in the call's results, and the loop breaks or moves on.
RunHandlerReturns(r) ==
    /\ rpc[r] = "call"
    /\ \E out \in HandlerOutcomes :
         LET step == rsteps[r].items[ri[r] + 1]
             step_result == HandlerStepResult(step, ri[r], out)
         IN  /\ rresults' = [rresults EXCEPT ![Own(r)] = Append(@, step_result)]
             /\ routs' = [routs EXCEPT ![r] = Append(@, out)]
             /\ IF HandlerFailure(out) /\ Halts(step)
                THEN /\ rfailed_step' = [rfailed_step EXCEPT ![r] = Break(ri[r]).failed_step]
                     /\ rworkflow_success' =
                           [rworkflow_success EXCEPT ![r] = Break(ri[r]).workflow_success]
                     /\ rpc' = [rpc EXCEPT ![r] = "finish"]
                     /\ UNCHANGED ri
                ELSE /\ rpc' = [rpc EXCEPT ![r] = RunAfterStep(rsteps[r], ri[r])]
                     /\ ri' = [ri EXCEPT ![r] = @ + 1]
                     /\ UNCHANGED <<rfailed_step, rworkflow_success>>
    /\ UNCHANGED <<rsteps, rreport>>
    /\ UNCHANGED outside_runs

\* Call r builds its report from its locals and returns it.
RunReturnReport(r) ==
    /\ rpc[r] = "finish"
    /\ rreport' = [rreport EXCEPT
                     ![r] = FinalReport(rsteps[r], rresults[Own(r)],
                                        rfailed_step[r], rworkflow_success[r])]
    /\ rpc' = [rpc EXCEPT ![r] = "returned"]
    /\ UNCHANGED <<rsteps, ri, rresults, rfailed_step, rworkflow_success, routs>>
    /\ UNCHANGED outside_runs

RunsNext ==
    \E r \in Runs :
        RunEnter(r) \/ RunStepBegin(r) \/ RunHandlerReturns(r) \/ RunReturnReport(r)

\* Two calls of run_workflow are under way; nothing else is.
RunsCallInit == RunsInit /\ WorkflowIdle /\ DemoIdle /\ HttpIdle /\ ServerIdle

SpecRuns == RunsCallInit /\ [][RunsNext]_allvars

\* The report of one call made alone on sts whose handlers return outs, in
\* order: the loop replayed from step idx with the results rs so far.
RECURSIVE SoloRun(_, _, _, _)
SoloRun(sts, outs, idx, rs) ==
    IF idx >= sts.size
    THEN FinalReport(sts, rs, NoIndex, TRUE)
    ELSE LET step == sts.items[idx + 1]
             out == outs[idx + 1]
             step_result == HandlerStepResult(step, idx, out)
         IN  IF HandlerFailure(out) /\ Halts(step)
             THEN FinalReport(sts, Append(rs, step_result), idx, FALSE)
             ELSE SoloRun(sts, outs, idx + 1, Append(rs, step_result))

(***************************************************************************)
(* The HTTP application of http_server.py: GET /mcp (handle_sse, guarded by *)
(* the validate_token dependency) and POST /mcp/messages (mcp_post_handler). *)
(* Strings are sequences of characters.  The application serves requests    *)
(* once its lifespan has started, which is when the transport exists.       *)
(***************************************************************************)
BearerScheme == <<"B", "e", "a", "r", "e", "r">>
LowerBearerScheme == <<"b", "e", "a", "r", "e", "r">>
BasicScheme == <<"B", "a", "s", "i", "c">>
Space == <<" ">>

\* Values of config.server.password: the default "" and two passwords.
Passwords == {<<>>, <<"p">>, <<"p", "w">>}

\* What a client puts after the scheme.
Tokens == {<<>>, <<"p">>, <<"p", "w">>, <<"x">>}

\* Values of the Authorization header.
HeaderValues ==
    {sch \o sep \o tok :
        sch \in {BearerScheme, LowerBearerScheme, BasicScheme, <<>>},
        sep \in {<<>>, Space},
        tok \in Tokens}

\* The requests to one endpoint: with an Authorization header, or without.
Requests(endpoint) ==
    {[endpoint |-> endpoint, has_header |-> TRUE, header |-> h] : h \in HeaderValues}
    \cup {[endpoint |-> endpoint, has_header |-> FALSE, header |-> <<>>]}

\* str.lower() over the characters used here.
Lower(str) == [k \in DOMAIN str |-> IF str[k] = "B" THEN "b" ELSE str[k]]

\* str.startswith(prefix)
StartsWith(str, prefix) ==
    Len(str) >= Len(prefix) /\ SubSeq(str, 1, Len(prefix)) = prefix

\* str.partition(" "): what precedes the first space, and what follows it.
Partition(str) ==
    LET spaces == {k \in DOMAIN str : str[k] = " "}
    IN  IF spaces = {}
        THEN [head |-> str, tail |-> <<>>]
        ELSE LET k == CHOOSE x \in spaces : \A y \in spaces : x <= y
             IN  [head |-> SubSeq(str, 1, k - 1), tail |-> SubSeq(str, k + 1, Len(str))]

\* The HTTPBearer() security scheme that validate_token depends on: the
\* header is split at its first space; a missing header, scheme or
\* credentials, or a scheme other than "bearer" in any case, is refused.
HTTPBearer(req) ==
    LET parts == IF req.has_header THEN Partition(req.header)
                 ELSE [head |-> <<>>, tail |-> <<>>]
    IN  IF ~req.has_header \/ req.header = <<>> \/ parts.head = <<>> \/ parts.tail = <<>>
        THEN [ok |-> FALSE, credentials |-> <<>>]
        ELSE IF Lower(parts.head) # LowerBearerScheme
        THEN [ok |-> FALSE, credentials |-> <<>>]
        ELSE [ok |-> TRUE, credentials |-> parts.tail]

\* The status HTTPBearer refuses with: 401 or 403, by the FastAPI version.
BearerRefusals == {401, 403}

\* Mutant of PasswordConfigured: the empty password is accepted as configured.
PasswordConfigured_Always(password) == TRUE

\* bool(config.server.password)
PasswordConfigured(password) == password # <<>>

\* validate_token: the status of the HTTPException it raises, or 0 when it
\* returns the token.
validate_token(credentials, password) ==
    IF ~PasswordConfigured(password) THEN 403
    ELSE IF credentials # password THEN 401
    ELSE 0

\* What the transport answers to a message it is handed: accepted, or a bad
\* session id.
TransportAnswers == {202, 400}

HttpInit ==
    /\ hpassword \in Passwords
    /\ hstarted = FALSE
    /\ hrequest = [endpoint |-> None, has_header |-> FALSE, header |-> <<>>]
    /\ hresponse = 0
    /\ htransport = FALSE

\* lifespan: the MCP server and the SSE transport are created.
Lifespan ==
    /\ ~hstarted
    /\ hstarted' = TRUE
    /\ UNCHANGED <<hpassword, hrequest, hresponse, htransport>>
    /\ UNCHANGED outside_http

\* GET /mcp: the dependency validate_token, then the body of handle_sse.
handle_sse ==
    /\ hstarted
    /\ \E req \in Requests("GET /mcp"), refusal \in BearerRefusals :
         LET bearer == HTTPBearer(req)
             status == validate_token(bearer.credentials, hpassword)
         IN  /\ hrequest' = req
             /\ IF ~bearer.ok
                THEN hresponse' = refusal /\ htransport' = FALSE
                ELSE IF status # 0
                THEN hresponse' = status /\ htransport' = FALSE
                ELSE IF ~hstarted
                THEN hresponse' = 503 /\ htransport' = FALSE
                ELSE hresponse' = 200 /\ htransport' = TRUE
    /\ UNCHANGED <<hpassword, hstarted>>
    /\ UNCHANGED outside_http

\* POST /mcp/messages: the ASGI wrapper that checks the header itself.
mcp_post_handler ==
    /\ hstarted
    /\ \E req \in Requests("POST /mcp/messages"), answer \in TransportAnswers :
         LET token == SubSeq(req.header, 7 + 1, Len(req.header))
         IN  /\ hrequest' = req
             /\ IF ~hstarted
                THEN hresponse' = 503 /\ htransport' = FALSE
                ELSE IF ~req.has_header \/ req.header = <<>>
                        \/ ~StartsWith(req.header, BearerScheme \o Space)
                THEN hresponse' = 401 /\ htransport' = FALSE
                ELSE IF ~PasswordConfigured(hpassword)
                THEN hresponse' = 403 /\ htransport' = FALSE
                ELSE IF token # hpassword
                THEN hresponse' = 401 /\ htransport' = FALSE
                ELSE hresponse' = answer /\ htransport' = TRUE
    /\ UNCHANGED <<hpassword, hstarted>>
    /\ UNCHANGED outside_http

HttpNext == Lifespan \/ handle_sse \/ mcp_post_handler

\* The HTTP application is created; nothing else is under way.
HttpAppInit == HttpInit /\ WorkflowIdle /\ DemoIdle /\ RunsIdle /\ ServerIdle

SpecHttp == HttpAppInit /\ [][HttpNext]_allvars

(***************************************************************************)
(* The MCP server of server.py: call_tool answers a tools/call request by   *)
(* looking the name up in TOOL_HANDLERS and invoking the handler found.     *)
(***************************************************************************)
\* The keys of TOOL_HANDLERS.
TOOL_HANDLERS ==
    {"screenshot", "get_screen_size",
     "click", "double_click", "move_to", "drag_to", "scroll", "get_mouse_position",
     "type_text", "press_key", "hotkey",
     "read_file", "write_file", "list_files", "upload_file", "download_file",
     "execute_command", "get_system_info", "list_windows", "focus_window"}

\* The names a tools/call request may carry: the registered tools, the two
\* workflow functions, and a name that is no tool at all.
ToolNames == TOOL_HANDLERS \cup {"run_workflow", "demo_terminal_workflow", "no_such_tool"}

\* What an invoked handler does, and whether the mapping it returns has an
\* "image" key.
ServerResults == [out : HandlerOutcomes, has_image : BOOLEAN]

\* The content call_tool answers with.
UnknownTool(name) == [type |-> "text", text |-> "Unknown tool: " \o name]

\* call_tool once a handler was found and invoked with result res: the image
\* of a successful screenshot, else the result as JSON text; a raising
\* handler, or a screenshot result without a get method, raises.
Answer(name, res) ==
    IF res.out.kind = "raise" THEN [type |-> "raised", text |-> res.out.error]
    ELSE IF name = "screenshot" /\ res.out.kind # "dict"
    THEN [type |-> "raised", text |-> "AttributeError"]
    ELSE IF name = "screenshot" /\ GetSuccess(res.out, FALSE) /\ res.has_image
    THEN [type |-> "image", text |-> "image/png"]
    ELSE [type |-> "text", text |-> "json.dumps(result)"]

ServerInit ==
    /\ sname = None
    /\ sresult = [out |-> NoResult, has_image |-> FALSE]
    /\ sresponse = [type |-> None, text |-> None]

\* One tools/call request.
call_tool ==
    /\ \E name \in ToolNames, res \in ServerResults :
         /\ sname' = name
         /\ IF name \notin TOOL_HANDLERS
            THEN /\ sresult' = [out |-> NoResult, has_image |-> FALSE]
                 /\ sresponse' = UnknownTool(name)
            ELSE /\ sresult' = res
                 /\ sresponse' = Answer(name, res)
    /\ UNCHANGED outside_server

ServerNext == call_tool

\* The MCP server is created; nothing else is under way.
ServerCallInit == ServerInit /\ WorkflowIdle /\ DemoIdle /\ RunsIdle /\ HttpIdle

SpecServer == ServerCallInit /\ [][ServerNext]_allvars

(***************************************************************************)
(* Vocabulary of the properties.  Steps are numbered from 0, as in Python.  *)
(***************************************************************************)
Returned == pc = "returned"

\* The input passed both input checks: the report comes from the step loop.
IsStepList == steps.type = "list" /\ steps.size > 0

Indexes == 0 .. (Len(steps.items) - 1)

StepAt(j) == steps.items[j + 1]

Min(S) == CHOOSE x \in S : \A y \in S : x <= y

\* Positions of the trace holding an event of one kind.
EventsOf(ev) == {p \in DOMAIN trace : trace[p].ev = ev}

\* A mapping whose tool resolves and whose args is a mapping.
WellFormed(step) ==
    step.is_dict /\ step.tool \in tool_modules /\ step.args_is_dict

\* A mapping with a validation error or an unknown tool.
Malformed(step) == step.is_dict /\ ~WellFormed(step)

\* The handler's return is a success: a mapping saying success, or a value
\* that is not a mapping.
SuccessOutcome(out) ==
    \/ out.kind = "dict" /\ out.has_success /\ out.success
    \/ out.kind = "value"

\* The handler reported a failure or raised.
FailureOutcome(out) ==
    \/ out.kind = "dict" /\ out.has_success /\ ~out.success
    \/ out.kind = "raise"

\* Step j is a mapping that failed: it is malformed, its tool did not
\* resolve, or its handler failed.
Failed(j) ==
    /\ StepAt(j).is_dict
    /\ \/ Malformed(StepAt(j))
       \/ \E p \in EventsOf("resolve") : trace[p].idx = j /\ trace[p].out.kind # "handler"
       \/ \E p \in EventsOf("ret") : trace[p].idx = j /\ FailureOutcome(trace[p].out)

\* The tool of step j was resolved to a handler.
Resolved(j) ==
    \E p \in EventsOf("resolve") : trace[p].idx = j /\ trace[p].out.kind = "handler"

\* The handler of step j was invoked and failed.
HandlerFailed(j) ==
    \E p \in EventsOf("ret") : trace[p].idx = j /\ FailureOutcome(trace[p].out)

\* The failing steps without continue_on_error that only mappings precede.
HaltingSteps ==
    {j \in Indexes : /\ Failed(j)
                     /\ ~StepAt(j).continue_on_error
                     /\ \A m \in 0 .. (j - 1) : StepAt(m).is_dict}

(***************************************************************************)
(* C1: a non-empty list of well-formed steps whose handlers all return a    *)
(* success yields success=true, failed_step=null, completed_steps =         *)
(* total_steps = len(steps) and one result per step.                        *)
(***************************************************************************)
NoStepFails ==
    /\ IsStepList
    /\ \A j \in Indexes : WellFormed(StepAt(j))
    /\ \A p \in EventsOf("resolve") : trace[p].out.kind = "handler"
    /\ \A p \in EventsOf("ret") : SuccessOutcome(trace[p].out)

C1_AllSucceed ==
    (Returned /\ NoStepFails) =>
        /\ report.success
        /\ report.failed_step = NoIndex
        /\ report.completed_steps = report.total_steps
        /\ report.total_steps = steps.size
        /\ Len(report.results) = steps.size

C1_Witness ==
    /\ Returned /\ NoStepFails /\ steps.size = 2
    /\ \E p \in EventsOf("ret") : trace[p].out.kind = "value"
    /\ \E p \in EventsOf("ret") : trace[p].out.kind = "dict"

(***************************************************************************)
(* C2: when step k is the first failing step without continue_on_error,     *)
(* the run returns success=false, failed_step=k and k+1 results, and no     *)
(* step after k is ever resolved, invoked or recorded.                      *)
(***************************************************************************)
C2_HaltsAtFirstFailure ==
    HaltingSteps # {} =>
        LET k == Min(HaltingSteps)
        IN  /\ pc # "raised"
            /\ \A p \in DOMAIN trace : trace[p].idx <= k
            /\ \A n \in DOMAIN results : results[n].step_index <= k
            /\ Returned =>
                  /\ ~report.success
                  /\ report.failed_step = k
                  /\ Len(report.results) = k + 1

C2_Witness ==
    /\ Returned
    /\ HaltingSteps # {}
    /\ Min(HaltingSteps) = 0
    /\ steps.size = 2
    /\ HandlerFailed(0)
    /\ WellFormed(StepAt(1))

(***************************************************************************)
(* C3: when every failing step has continue_on_error=true, every step is    *)
(* executed and recorded and the report has success=true and                *)
(* failed_step=null, with completed_steps < total_steps if a step failed.   *)
(***************************************************************************)
AllFailuresContinued ==
    /\ IsStepList
    /\ \A j \in Indexes : StepAt(j).is_dict
    /\ \A j \in Indexes : Failed(j) => StepAt(j).continue_on_error

C3_ContinuesPastFailures ==
    (Returned /\ AllFailuresContinued) =>
        /\ report.success
        /\ report.failed_step = NoIndex
        /\ Len(report.results) = steps.size
        /\ \A j \in Indexes : report.results[j + 1].step_index = j
        /\ \A j \in Indexes :
              StepAt(j).tool # None => \E p \in EventsOf("resolve") : trace[p].idx = j
        /\ \A j \in Indexes :
              (WellFormed(StepAt(j)) /\ Resolved(j)) =>
                  \E p \in EventsOf("call") : trace[p].idx = j
        /\ (\E j \in Indexes : Failed(j)) => report.completed_steps < report.total_steps

C3_Witness ==
    /\ Returned /\ AllFailuresContinued /\ steps.size = 2
    /\ HandlerFailed(0)
    /\ report.results[2].success

(***************************************************************************)
(* C4: results[n] carries step_index n, handlers are invoked in strictly    *)
(* ascending step order, and a handler is invoked only after the handler    *)
(* invoked before it has returned.                                          *)
(***************************************************************************)
C4_OrderPreserved ==
    /\ \A n \in DOMAIN results : results[n].step_index = n - 1
    /\ \A n \in DOMAIN report.results : report.results[n].step_index = n - 1
    /\ \A p, q \in EventsOf("call") :
          p < q => /\ trace[p].idx < trace[q].idx
                   /\ \E r \in EventsOf("ret") : p < r /\ r < q /\ trace[r].idx = trace[p].idx

C4_Witness ==
    /\ Returned
    /\ Len(report.results) = 2
    /\ Cardinality(EventsOf("call")) = 2

(***************************************************************************)
(* C5: every step recorded as a success with wait_ms > 0, the last one      *)
(* included, is followed at once by its delay; the run is blocked while the *)
(* delay lasts and nothing happens before it ends.                          *)
(***************************************************************************)
DelayedSteps ==
    {n \in DOMAIN results : results[n].success /\ StepAt(n - 1).wait_ms > 0}

C5_DelayAfterSuccess ==
    /\ \A n \in DelayedSteps :
          \E p \in EventsOf("sleep") :
              /\ trace[p].idx = n - 1
              /\ p > 1 /\ trace[p - 1].ev = "ret" /\ trace[p - 1].idx = n - 1
              /\ IF p = Len(trace) THEN pc = "sleep"
                 ELSE trace[p + 1].ev = "wake" /\ trace[p + 1].idx = n - 1
    /\ pc = "sleep" => trace[Len(trace)].ev = "sleep"

C5_Witness ==
    /\ Returned
    /\ steps.size = 2
    /\ DelayedSteps = {1, 2}
    /\ Cardinality(EventsOf("wake")) = 2

(***************************************************************************)
(* C6: the delays applied are exactly those of the steps recorded with      *)
(* success=true and wait_ms > 0; no delay follows a step that did not       *)
(* succeed, halted or continued past.                                       *)
(***************************************************************************)
C6_NoDelayAfterFailure ==
    /\ Cardinality(EventsOf("sleep")) = Cardinality(DelayedSteps)
    /\ \A p \in EventsOf("sleep") : (trace[p].idx + 1) \in DelayedSteps

C6_Witness ==
    /\ Returned
    /\ steps.size = 2
    /\ Len(report.results) = 2
    /\ StepAt(0).wait_ms > 0 /\ StepAt(0).continue_on_error
    /\ HandlerFailed(0)
    /\ EventsOf("sleep") = {}

(***************************************************************************)
(* C7: run_workflow([]) returns success=false, error 'No steps provided',   *)
(* zero counts, failed_step=null and no results, and no handler is resolved *)
(* or invoked.                                                              *)
(***************************************************************************)
C7_EmptyList ==
    (Returned /\ steps.type = "list" /\ steps.size = 0) =>
        /\ report = [success |-> FALSE, error |-> "No steps provided",
                     total_steps |-> 0, completed_steps |-> 0,
                     failed_step |-> NoIndex, results |-> <<>>]
        /\ trace = <<>>

C7_Witness == Returned /\ steps.type = "list" /\ steps.size = 0

(***************************************************************************)
(* C8: every input that is not a list, empty or not, is answered with       *)
(* success=false and error 'Steps must be a list', and no step is           *)
(* attempted.                                                               *)
(***************************************************************************)
C8_NonListRejected ==
    (Returned /\ steps.type # "list") =>
        /\ ~report.success
        /\ report.error = "Steps must be a list"
        /\ trace = <<>>

(***************************************************************************)
(* C9: in every report, the input-validation reports included, failed_step  *)
(* is null if and only if success is true.                                  *)
(***************************************************************************)
C9_FailedStepIffFailure ==
    Returned => (report.failed_step = NoIndex <=> report.success)

\* C9 as amended: success=true implies failed_step=null in every report, and
\* the converse holds in every report of the step loop; the input-validation
\* reports have success=false with failed_step=null.
C9_FailedStepIffFailureInLoop ==
    Returned =>
        /\ report.success => report.failed_step = NoIndex
        /\ IsStepList => (report.failed_step = NoIndex => report.success)
        /\ ~IsStepList => (~report.success /\ report.failed_step = NoIndex)

C9_Witness ==
    /\ Returned /\ IsStepList
    /\ ~report.success
    /\ report.failed_step = 1

(***************************************************************************)
(* C10: no fault leaves run_workflow: every step list gets a report, and a  *)
(* step that is not a mapping is recorded at its index with a validation    *)
(* error.                                                                   *)
(***************************************************************************)
C10_NoFaultEscapes ==
    /\ pc # "raised"
    /\ Returned =>
          \A j \in Indexes :
              (~StepAt(j).is_dict /\ j < Len(report.results)) =>
                  /\ report.results[j + 1].step_index = j
                  /\ report.results[j + 1].error # None

(***************************************************************************)
(* C11: when the loop reaches a step that is not a dict, AttributeError     *)
(* leaves run_workflow and no report is returned, the results of the steps  *)
(* executed before it being lost; a report is returned only if the loop     *)
(* halted before every such step.                                           *)
(***************************************************************************)
NonDictSteps == {j \in Indexes : ~StepAt(j).is_dict}

C11_NonDictStepRaises ==
    /\ pc = "raised" =>
          /\ exc = "AttributeError"
          /\ i \in NonDictSteps
          /\ Len(results) = i
          /\ report = EarlyReport(None)
    /\ (Returned /\ IsStepList) =>
          \A j \in NonDictSteps : report.failed_step # NoIndex /\ report.failed_step < j
    /\ \A j \in NonDictSteps : Len(results) <= j

C11_Witness ==
    /\ pc = "raised"
    /\ i = 1
    /\ Len(results) = 1
    /\ results[1].success

(***************************************************************************)
(* C12: the recorded success of a step whose handler returned a mapping is  *)
(* the mapping's success field, and true when the field is absent.          *)
(***************************************************************************)
C12_SuccessFieldDefaultsTrue ==
    \A p \in EventsOf("ret") :
        trace[p].out.kind = "dict" =>
            results[trace[p].idx + 1].success =
                (IF trace[p].out.has_success THEN trace[p].out.success ELSE TRUE)

(***************************************************************************)
(* C13: a step whose handler returns a value that is not a mapping is       *)
(* recorded with success=true and that value as result, and does not halt   *)
(* the run.                                                                 *)
(***************************************************************************)
C13_NonMappingIsSuccess ==
    \A p \in EventsOf("ret") :
        trace[p].out.kind = "value" =>
            /\ results[trace[p].idx + 1].success
            /\ results[trace[p].idx + 1].result = trace[p].out
            /\ results[trace[p].idx + 1].error = None
            /\ failed_step # trace[p].idx
            /\ (pc = "finish" /\ failed_step # NoIndex) => Len(results) > trace[p].idx + 1

C13_Witness ==
    /\ Returned
    /\ Len(report.results) = 2
    /\ report.success
    /\ \E p \in EventsOf("ret") : trace[p].idx = 0 /\ trace[p].out.kind = "value"
    /\ ~StepAt(0).continue_on_error

(***************************************************************************)
(* C14: an exception raised by a handler is recorded as a StepResult with   *)
(* success=false and the exception's message as error; it halts the run at  *)
(* that step without continue_on_error and is passed with it, and it never  *)
(* leaves run_workflow.                                                     *)
(***************************************************************************)
C14_HandlerExceptionCaught ==
    /\ \A p \in EventsOf("ret") :
          trace[p].out.kind = "raise" =>
              LET j == trace[p].idx
              IN  /\ ~results[j + 1].success
                  /\ results[j + 1].error = trace[p].out.error
                  /\ ~StepAt(j).continue_on_error =>
                        failed_step = j /\ ~workflow_success /\ pc \in {"finish", "returned"}
                  /\ StepAt(j).continue_on_error => failed_step # j
    /\ pc = "raised" => exc \notin {o.error : o \in HandlerOutcomes}

C14_Witness ==
    /\ Returned
    /\ report.success
    /\ Len(report.results) = 2
    /\ \E p \in EventsOf("ret") : trace[p].idx = 0 /\ trace[p].out.kind = "raise"
    /\ report.results[1].error = "Test exception"

(***************************************************************************)
(* C15: a missing tool, an unknown tool and args that is not a mapping are  *)
(* recorded as the step's error and follow continue_on_error: without it    *)
(* the run halts at that step, with it the later steps are still executed.  *)
(***************************************************************************)
\* Step j was recorded with a validation or resolution error.
InvalidRecorded(j) ==
    /\ j < Len(results)
    /\ StepAt(j).is_dict
    /\ \/ StepAt(j).tool = None
       \/ \E p \in EventsOf("resolve") : trace[p].idx = j /\ trace[p].out.kind = "unresolved"
       \/ Resolved(j) /\ ~StepAt(j).args_is_dict

C15_ValidationFollowsContinueOnError ==
    \A j \in Indexes :
        InvalidRecorded(j) =>
            /\ ~results[j + 1].success
            /\ results[j + 1].error # None
            /\ \A p \in EventsOf("call") : trace[p].idx # j
            /\ ~StepAt(j).continue_on_error =>
                  /\ failed_step = j
                  /\ ~workflow_success
                  /\ Len(results) = j + 1
                  /\ pc \in {"finish", "returned"}
                  /\ Returned => report.failed_step = j /\ ~report.success
            /\ StepAt(j).continue_on_error =>
                  /\ failed_step # j
                  /\ (Returned /\ j + 1 < steps.size /\ report.failed_step = NoIndex) =>
                        Len(report.results) = steps.size

C15_Witness ==
    /\ Returned
    /\ steps.size = 2
    /\ InvalidRecorded(0)
    /\ StepAt(0).continue_on_error
    /\ Resolved(0)
    /\ report.results[2].success

(***************************************************************************)
(* C16: the error message of a mapping returned with success=false is the   *)
(* error of the step's StepResult, whether the step halts the run or        *)
(* continue_on_error lets it proceed.                                       *)
(***************************************************************************)
C16_ReportedErrorPassedThrough ==
    \A p \in EventsOf("ret") :
        (/\ trace[p].out.kind = "dict"
         /\ trace[p].out.has_success
         /\ ~trace[p].out.success
         /\ trace[p].out.error # None) =>
            results[trace[p].idx + 1].error = trace[p].out.error

(***************************************************************************)
(* Vocabulary of the properties of demo_terminal_workflow.                  *)
(***************************************************************************)
DemoReturned == dpc = "returned"

\* The stage is listed in steps_completed.
Completed(name) == \E n \in DOMAIN steps_completed : steps_completed[n] = name

\* Positions of dtrace holding an event of one stage.
StageEvents(stage) == {p \in DOMAIN dtrace : dtrace[p].stage = stage}

\* The event shows a required stage failing: no terminal detected, the launch
\* raising, the tool of the typing or submit stage not found or not loadable,
\* or its handler reporting a failure or raising.
RequiredFailure(e) ==
    \/ e.ev = "detect" /\ e.out.kind = "none"
    \/ e.ev = "launch_failed"
    \/ /\ e.stage \in {"type", "enter"}
       /\ \/ e.ev = "resolve" /\ e.out.kind # "handler"
          \/ e.ev = "call" /\ FailureOutcome(e.out)

(***************************************************************************)
(* C17: with capture_screenshot=false the report's screenshot is null and   *)
(* capture_screenshot is never listed in steps_completed; with              *)
(* close_terminal=false close_terminal is never listed.                     *)
(***************************************************************************)
C17_DisabledStagesOmitted ==
    /\ ~dparams.capture_screenshot =>
          dresult.screenshot = NoResult /\ ~Completed("capture_screenshot")
    /\ ~dparams.close_terminal => ~Completed("close_terminal")

C17_Witness ==
    /\ DemoReturned
    /\ dresult.success
    /\ ~dparams.capture_screenshot
    /\ ~dparams.close_terminal
    /\ Completed("press_enter")

(***************************************************************************)
(* C18: once a required stage has failed, no later stage is executed (only  *)
(* the teardown of the except clause may follow) and the report has         *)
(* success=false and an error; after a failed detection nothing is launched *)
(* and no tool is resolved or invoked.                                      *)
(***************************************************************************)
C18_RequiredFailureAborts ==
    \A p \in DOMAIN dtrace :
        RequiredFailure(dtrace[p]) =>
            /\ \A q \in DOMAIN dtrace : q > p => dtrace[q].stage = "cleanup"
            /\ dpc \in {"except", "returned"}
            /\ DemoReturned => (~dresult.success /\ dresult.error # None)
            /\ dtrace[p].ev = "detect" => (Len(dtrace) = 1 /\ DemoReturned)

C18_Witness ==
    /\ DemoReturned
    /\ Completed("type_text")
    /\ dparams.capture_screenshot
    /\ \E p \in StageEvents("enter") :
          /\ dtrace[p].ev = "call"
          /\ dtrace[p].out.kind = "dict"
          /\ RequiredFailure(dtrace[p])

(***************************************************************************)
(* C19: when a required stage after the launch fails and close_terminal was *)
(* requested, the close-window hotkey is still attempted before the failure *)
(* is returned.                                                             *)
(***************************************************************************)
C19_TeardownAfterFailure ==
    (/\ DemoReturned
     /\ dparams.close_terminal
     /\ \E p \in StageEvents("type") \cup StageEvents("enter") : RequiredFailure(dtrace[p])) =>
        \E q \in DOMAIN dtrace : dtrace[q].tool = "hotkey" /\ dtrace[q].ev = "resolve"

(***************************************************************************)
(* C20: the capture stage is best-effort: whatever the screenshot tool      *)
(* does (succeeds, reports failure, is unavailable, raises), the run goes   *)
(* on to the teardown stage and, unless that stage intervenes, returns      *)
(* success=true.                                                            *)
(***************************************************************************)
C20_CaptureIsBestEffort ==
    (StageEvents("capture") # {} /\ StageEvents("close") = {}) =>
        /\ dpc \in {"close", "returned"}
        /\ DemoReturned => dresult.success

\* The handler of the stage's tool was invoked and returned a mapping that
\* says success.
StageToolSucceeded(stage) ==
    \E p \in StageEvents(stage) :
        /\ dtrace[p].ev = "call"
        /\ dtrace[p].out.kind = "dict"
        /\ dtrace[p].out.has_success
        /\ dtrace[p].out.success

\* The five required stages, in the order they are listed.
RequiredStages ==
    <<"detect_terminal", "open_terminal", "wait_for_terminal", "type_text", "press_enter">>

(***************************************************************************)
(* C21: the teardown stage is best-effort: once the close hotkey has been   *)
(* invoked in the teardown stage (all required stages succeeded) and has    *)
(* reported a failure or raised, the report still has success=true and      *)
(* error=null.                                                              *)
(***************************************************************************)
C21_TeardownFailureNotPropagated ==
    (/\ DemoReturned
     /\ \E p \in StageEvents("close") :
           dtrace[p].ev = "call" /\ FailureOutcome(dtrace[p].out)) =>
        (dresult.success /\ dresult.error = None)

ArgsRejected(j) ==
    /\ IsStepList
    /\ StepAt(j).is_dict
    /\ StepAt(j).tool \in tool_modules
    /\ ~StepAt(j).args_is_dict
    /\ \E n \in DOMAIN results :
          /\ results[n].step_index = j
          /\ results[n].error = "Step " \o ToString(j) \o " 'args' must be a dictionary"

\* Number of handler invocations of step j.
Calls(j) == Cardinality({p \in EventsOf("call") : trace[p].idx = j})

(***************************************************************************)
(* C26: a malformed input (empty run, non-list input, non-mapping step,     *)
(* non-mapping args) always ends the run at once with a failure report,     *)
(* whatever continue_on_error says: no fault leaves the call, an empty or   *)
(* non-list input is answered before any step is attempted, and no step     *)
(* after a step with non-mapping args is resolved, invoked or recorded.     *)
(***************************************************************************)
C26_MalformedInputAlwaysHalts ==
    /\ pc # "raised"
    /\ (Returned /\ ~IsStepList) =>
          (~report.success /\ report.results = <<>> /\ trace = <<>>)
    /\ \A j \in Indexes :
          ArgsRejected(j) =>
              /\ \A p \in DOMAIN trace : trace[p].idx <= j
              /\ \A n \in DOMAIN results : results[n].step_index <= j
              /\ pc \in {"finish", "returned"}
              /\ Returned => (~report.success /\ report.failed_step = j)

(***************************************************************************)
(* C27: in every report len(results) <= len(steps), and len(results) =      *)
(* len(steps) only when no step halted the run or the halting step is the   *)
(* last step of the list.                                                   *)
(***************************************************************************)
C27_ResultsBoundedBySteps ==
    /\ IsStepList => Len(results) <= Len(steps.items)
    /\ Returned =>
          /\ Len(report.results) <= Len(steps.items)
          /\ Len(report.results) = Len(steps.items) =>
                /\ report.failed_step \in {NoIndex, Len(steps.items) - 1}
                /\ HaltingSteps # {} => Min(HaltingSteps) = Len(steps.items) - 1

C27_Witness ==
    /\ Returned
    /\ steps.size = 2
    /\ HandlerFailed(1)
    /\ report.failed_step = 1
    /\ Len(report.results) = 2

(***************************************************************************)
(* C28: in every report completed_steps is the number of entries of results *)
(* whose success is true, hence completed_steps <= len(results) <=          *)
(* total_steps.                                                             *)
(***************************************************************************)
C28_CompletedCountsSuccesses ==
    Returned =>
        /\ report.completed_steps =
              Cardinality({n \in DOMAIN report.results : report.results[n].success})
        /\ report.completed_steps <= Len(report.results)
        /\ Len(report.results) <= report.total_steps

C28_Witness ==
    /\ Returned
    /\ steps.size = 2
    /\ Len(report.results) = 2
    /\ report.completed_steps = 1
    /\ ~report.results[1].success

(***************************************************************************)
(* C29: the handler of each step is invoked at most once per run, whatever  *)
(* the outcome: a failed step is never attempted again, and the number of   *)
(* handler invocations never exceeds the number of recorded results (plus   *)
(* the invocation under way).                                               *)
(***************************************************************************)
C29_AtMostOneAttempt ==
    /\ \A j \in Indexes : Calls(j) <= 1
    /\ \A p \in DOMAIN trace : \A q \in DOMAIN trace :
          (p < q) => trace[p].idx <= trace[q].idx
    /\ Cardinality(EventsOf("call")) <= Len(results) + (IF pc = "call" THEN 1 ELSE 0)
    /\ Returned => Cardinality(EventsOf("call")) <= Len(report.results)

C29_Witness ==
    /\ Returned
    /\ steps.size = 2
    /\ HandlerFailed(0)
    /\ StepAt(0).continue_on_error
    /\ Calls(0) = 1
    /\ Calls(1) = 1

C23_RunsAreIsolated ==
    \A r \in Runs :
        /\ \A n \in DOMAIN rresults[r] : rresults[r][n].tool = RunTool(r)
        /\ rpc[r] = "returned" =>
              /\ rreport[r] = SoloRun(rsteps[r], routs[r], 0, <<>>)
              /\ \A n \in DOMAIN rreport[r].results :
                    rreport[r].results[n].tool = RunTool(r)

C23_Witness ==
    /\ \A r \in Runs : rpc[r] = "returned" /\ rsteps[r].size = 2
    /\ rreport["A"].failed_step = 1
    /\ rreport["B"].success
    /\ Len(rreport["B"].results) = 2
    /\ rreport["B"].completed_steps = 1

\* A request has been handled.
Handled == hrequest.endpoint # None

\* The request presents the configured, non-empty password as its Bearer
\* token: the header is the scheme, one space and exactly the password.
PresentsPassword ==
    /\ hpassword # <<>>
    /\ hrequest.has_header
    /\ \/ hrequest.header = BearerScheme \o Space \o hpassword
       \/ /\ hrequest.endpoint = "GET /mcp"
          /\ hrequest.header = LowerBearerScheme \o Space \o hpassword

(***************************************************************************)
(* C24: a request to GET /mcp or POST /mcp/messages is handed to the        *)
(* MCP/SSE transport only if a non-empty password is configured and the     *)
(* Bearer token presented equals it exactly; with no password configured    *)
(* every request is rejected, and a missing, malformed, empty or wrong      *)
(* token is answered 401 or 403 without the transport being touched.        *)
(***************************************************************************)
C24_TransportBehindAuthentication ==
    Handled =>
        /\ htransport => PresentsPassword
        /\ ~PresentsPassword => (~htransport /\ hresponse \in {401, 403})
        /\ hpassword = <<>> => (~htransport /\ hresponse \in {401, 403})

C24_Witness ==
    /\ Handled
    /\ hpassword = <<>>
    /\ hrequest.endpoint = "POST /mcp/messages"
    /\ hrequest.header = BearerScheme \o Space
    /\ hresponse = 403
    /\ ~htransport

(***************************************************************************)
(* C25: a tools/call request naming demo_terminal_workflow is dispatched to *)
(* the workflow function: it is never answered 'Unknown tool'.              *)
(***************************************************************************)
C25_DemoWorkflowIsCallable ==
    sname = "demo_terminal_workflow" =>
        sresponse # [type |-> "text", text |-> "Unknown tool: demo_terminal_workflow"]

\* The seven stage names, in the order of the stages.
AllStages == RequiredStages \o <<"capture_screenshot", "close_terminal">>

\* The place of a stage name among the seven.
StagePosition(name) == CHOOSE k \in DOMAIN AllStages : AllStages[k] = name

\* Positions of dtrace where the handler of the hotkey tool is invoked.
HotkeyCalls == {p \in DOMAIN dtrace : dtrace[p].tool = "hotkey" /\ dtrace[p].ev = "call"}

(***************************************************************************)
(* C31: steps_completed is an order-preserving, repetition-free selection   *)
(* from the seven stage names, and a required stage (one of the first five) *)
(* is listed only if every required stage before it is listed.              *)
(***************************************************************************)
C31_CompletedStagesOrdered ==
    /\ \A n \in DOMAIN steps_completed :
          \E k \in DOMAIN AllStages : steps_completed[n] = AllStages[k]
    /\ \A n \in DOMAIN steps_completed : \A m \in DOMAIN steps_completed :
          n < m => StagePosition(steps_completed[n]) < StagePosition(steps_completed[m])
    /\ \A k \in DOMAIN RequiredStages :
          Completed(RequiredStages[k]) =>
              \A j \in 1 .. (k - 1) : Completed(RequiredStages[j])

C31_Witness ==
    /\ DemoReturned
    /\ dresult.success
    /\ steps_completed = RequiredStages \o <<"close_terminal">>
    /\ dparams.capture_screenshot

(***************************************************************************)
(* C35: in every report returned by demo_terminal_workflow, on every return *)
(* path, success is true if and only if error is null.                      *)
(***************************************************************************)
C35_SuccessIffNoError ==
    DemoReturned => (dresult.success <=> dresult.error = None)

C35_Witness ==
    /\ DemoReturned
    /\ ~dresult.success
    /\ dresult.error = "Failed to open terminal"

(***************************************************************************)
(* C36: the close-window hotkey is invoked at most once per run of          *)
(* demo_terminal_workflow, on every path, the exception path with its       *)
(* compensating teardown included.                                          *)
(***************************************************************************)
C36_HotkeyAtMostOnce == Cardinality(HotkeyCalls) <= 1

(***************************************************************************)
(* C37: with close_terminal=false the close-window hotkey is never resolved *)
(* nor invoked on any path, including after a stage failure or an           *)
(* exception.                                                               *)
(***************************************************************************)
C37_NoHotkeyUnlessRequested ==
    ~dparams.close_terminal =>
        \A p \in DOMAIN dtrace :
            dtrace[p].tool # "hotkey" /\ dtrace[p].stage \notin {"close", "cleanup"}

C37_Witness ==
    /\ DemoReturned
    /\ ~dparams.close_terminal
    /\ Completed("open_terminal")
    /\ ~dresult.success
    /\ dresult.error = "Test exception"

\* The typing stage failed: its tool was not found or not loadable, or its
\* handler reported a failure or raised.
TypeStageFailed == \E p \in StageEvents("type") : RequiredFailure(dtrace[p])

\* The event is an exception raised by the resolution or the handler of a tool.
RaisedAt(e) ==
    \/ e.ev = "resolve" /\ e.out.kind = "raise"
    \/ e.ev = "call" /\ e.out.kind = "raise"

\* The typing stage failed by raising.
TypeStageRaised == \E p \in StageEvents("type") : RaisedAt(dtrace[p])

\* No stage after the typing stage was executed.
LaterStagesAborted ==
    /\ StageEvents("enter") \cup StageEvents("capture") \cup StageEvents("close") = {}
    /\ ~Completed("press_enter")
    /\ ~Completed("capture_screenshot")
    /\ ~Completed("close_terminal")

TeardownFailed ==
    \E p \in StageEvents("cleanup") :
        \/ dtrace[p].ev = "resolve" /\ dtrace[p].out.kind # "handler"
        \/ dtrace[p].ev = "call" /\ FailureOutcome(dtrace[p].out)

\* The event that raised the exception the teardown compensates for: the one
\* just before the first event of the cleanup.
OriginalFailure ==
    dtrace[(CHOOSE p \in StageEvents("cleanup") :
                \A q \in StageEvents("cleanup") : p <= q) - 1]

\* The message of the exception an event raised.
MessageOf(e) ==
    IF e.ev = "resolve" THEN "import failed"
    ELSE IF e.out.kind = "raise" THEN e.out.error
    ELSE "AttributeError"

(***************************************************************************)
(* C33: when the compensating teardown attempted after a failure itself     *)
(* fails or raises, that error is swallowed: the function returns with      *)
(* success=false and the error of the report is the message of the original *)
(* failure, never the teardown's.                                           *)
(***************************************************************************)
C33_TeardownErrorSwallowed ==
    /\ dpc \in {"detect", "open", "wait", "type", "enter", "capture", "close",
                "except", "returned"}
    /\ TeardownFailed =>
          /\ DemoReturned
          /\ ~dresult.success
          /\ dresult.error = MessageOf(OriginalFailure)

C33_Witness ==
    /\ DemoReturned
    /\ TeardownFailed
    /\ \E p \in StageEvents("cleanup") : dtrace[p].ev = "call" /\ dtrace[p].out.kind = "raise"
    /\ dresult.error = "AttributeError"

\* The handler of the stage's tool returned a mapping that says success at
\* position p of dtrace.
SucceededAt(p, stage) ==
    /\ dtrace[p].stage = stage
    /\ dtrace[p].ev = "call"
    /\ dtrace[p].out.kind = "dict"
    /\ dtrace[p].out.has_success
    /\ dtrace[p].out.success

\* The place of a stage in the sequence of the stages; the cleanup of the
\* except clause comes last.
StageRank(stage) ==
    CHOOSE k \in 1 .. 8 :
        <<"detect", "open", "wait", "type", "enter", "capture", "close", "cleanup">>[k] = stage

(***************************************************************************)
(* C34: the stages and delays never overlap or reorder: typing starts only  *)
(* after the launch and the settle delay, Enter is pressed only after       *)
(* typing succeeded and the post-type delay was slept, and capture and      *)
(* teardown happen only after Enter succeeded and the post-submit delay was *)
(* slept.                                                                   *)
(***************************************************************************)
C34_StagesInOrder ==
    /\ \A p \in DOMAIN dtrace : \A q \in DOMAIN dtrace :
          p < q => StageRank(dtrace[p].stage) <= StageRank(dtrace[q].stage)
    /\ \A p \in StageEvents("type") :
          \E l \in DOMAIN dtrace : \E d \in DOMAIN dtrace :
              /\ l < d /\ d < p
              /\ dtrace[l].ev = "launch"
              /\ dtrace[d].ev = "sleep" /\ dtrace[d].stage = "wait"
    /\ \A p \in StageEvents("enter") :
          \E c \in DOMAIN dtrace : \E d \in DOMAIN dtrace :
              /\ c < d /\ d < p
              /\ SucceededAt(c, "type")
              /\ dtrace[d].ev = "sleep" /\ dtrace[d].stage = "type"
    /\ \A p \in StageEvents("capture") \cup StageEvents("close") :
          \E c \in DOMAIN dtrace : \E d \in DOMAIN dtrace :
              /\ c < d /\ d < p
              /\ SucceededAt(c, "enter")
              /\ dtrace[d].ev = "sleep" /\ dtrace[d].stage = "enter"

C34_Witness ==
    /\ DemoReturned
    /\ dresult.success
    /\ StageEvents("capture") # {}
    /\ StageEvents("close") # {}

\* Step j has been resolved, whatever came of it.
ResolutionTried(j) == \E p \in EventsOf("resolve") : trace[p].idx = j

(***************************************************************************)
(* C38: run_workflow validates and resolves the steps one at a time as they *)
(* are reached, not up front: when step k is the first step that is invalid *)
(* or names an unknown tool, the steps before k have been resolved and      *)
(* their handlers invoked before k is looked at, and their results stay in  *)
(* the report.                                                              *)
(***************************************************************************)
C38_NoUpFrontValidation ==
    \A k \in Indexes :
        (/\ IsStepList
         /\ Malformed(StepAt(k))
         /\ \A j \in 0 .. (k - 1) : WellFormed(StepAt(j))) =>
            /\ InvalidRecorded(k) =>
                  \A j \in 0 .. (k - 1) :
                      /\ ResolutionTried(j)
                      /\ Resolved(j) => Calls(j) = 1
                      /\ results[j + 1].step_index = j
            /\ Returned =>
                  /\ Len(report.results) >= 1
                  /\ report.results[1].step_index = 0
                  /\ k > 0 => ResolutionTried(0)
                  /\ InvalidRecorded(k) =>
                        /\ Len(report.results) >= k + 1
                        /\ \A j \in 0 .. (k - 1) :
                              /\ report.results[j + 1].step_index = j
                              /\ report.results[j + 1].tool = StepAt(j).tool

C38_Witness ==
    /\ Returned
    /\ steps.size = 2
    /\ WellFormed(StepAt(0))
    /\ Malformed(StepAt(1))
    /\ Calls(0) = 1
    /\ InvalidRecorded(1)
    /\ Len(report.results) = 2
    /\ report.results[1].success

\* The names of the two workflow functions.
WorkflowNames == {"run_workflow", "demo_terminal_workflow"}

\* The call is over: the report was returned, or an exception left it.
Terminated == pc \in {"returned", "raised"}

\* At most one handler invocation per step of the list, and a step naming a
\* workflow function is never invoked: it is recorded as an unknown tool.
BoundedWork ==
    /\ Cardinality(EventsOf("call")) <= Len(steps.items)
    /\ \A name \in WorkflowNames : \A imp \in ImportOutcomes :
          get_tool_handler(name, imp) = None /\ ~ResolutionRaises(name, imp)
    /\ \A j \in Indexes :
          (StepAt(j).is_dict /\ StepAt(j).tool \in WorkflowNames) =>
              /\ Calls(j) = 0
              /\ j < Len(results) => results[j + 1].error = "Unknown tool: " \o StepAt(j).tool

(***************************************************************************)
(* C39: if every handler call and every delay terminates, run_workflow      *)
(* terminates, after at most len(steps) handler invocations; a step cannot  *)
(* start a nested workflow, because run_workflow and demo_terminal_workflow *)
(* are not resolvable tool names and such a step gets an 'Unknown tool'     *)
(* error.                                                                   *)
(***************************************************************************)
C39_TerminatesWithBoundedWork == []BoundedWork /\ <>Terminated

C39_Witness ==
    /\ Returned
    /\ steps.size = 2
    /\ StepAt(0).tool = "run_workflow"
    /\ StepAt(0).continue_on_error
    /\ Calls(1) = 1
    /\ report.results[1].error = "Unknown tool: run_workflow"

====
